---- MODULE Spec2Model ----
(***************************************************************************)
(* Model of part1-database-etl/etl_pipeline.py (class ETLPipeline).        *)
(*                                                                         *)
(* Spec models one or more calls of ETLPipeline.load() against a           *)
(* relational store with transactions (commit / rollback), AUTO_INCREMENT  *)
(* keys, a UNIQUE constraint on customers.email and the four foreign keys  *)
(* of create_tables().  The cleansed DataFrames customers_df, products_df  *)
(* and sales_df are the state left by transform().                         *)
(*                                                                         *)
(* SpecOrders models transform_sales_to_orders() on its own, and           *)
(* SpecCustomers, SpecProducts and SpecSales the three transform_*()       *)
(* methods, each on its own.  SpecPhone and SpecDate apply                 *)
(* standardize_phone() and standardize_date() to single values.            *)
(***************************************************************************)
EXTENDS Integers, Sequences, FiniteSets, TLC

\* ------------------------------------------------------------------ bounds
MaxSales == 2        \* longest cleansed sales collection explored by Spec
MaxRuns == 2         \* calls of load() on the same store
MaxFailures == 1     \* store errors (connectivity) injected over all runs
MaxStartId == 2      \* largest AUTO_INCREMENT value of orders before run 1
MaxLines == 2        \* longest sales collection explored by SpecOrders
MaxRaw == 3          \* longest raw customers collection explored by SpecCustomers
MaxProducts == 4     \* longest raw products collection explored by SpecProducts
MaxRawSales == 3     \* longest raw sales collection explored by SpecSales
MaxTail == 11        \* longest run of digits behind the lead of a phone in SpecPhone

\* ------------------------------------------------------- values and helpers
\* pandas' missing value (NaN / None) in a numeric column
NaN == 0 - 1
\* pandas' missing value in an object (string) column
NaS == "NaN"

\* the empty dict {}
EmptyMap == [k \in {} |-> 0]

\* d[k] = v on a dict
Put(m, k, v) == [x \in (DOMAIN m) \cup {k} |-> IF x = k THEN v ELSE m[x]]

\* the ascending sequence of a finite set of integers
RECURSIVE SortedSeq(_)
SortedSeq(S) ==
    IF S = {} THEN <<>>
    ELSE LET m == CHOOSE x \in S : \A y \in S : x <= y
         IN <<m>> \o SortedSeq(S \ {m})

RECURSIVE SumSeq(_)
SumSeq(s) == IF s = <<>> THEN 0 ELSE Head(s) + SumSeq(Tail(s))

Tables == {"customers", "products", "orders", "order_items"}

VARIABLES
    raw,                   \* the raw DataFrame handed to a transform_* method
    customers_df,          \* self.customers_df (cleansed)
    products_df,           \* self.products_df (cleansed)
    sales_df,              \* self.sales_df (cleansed)
    connection,            \* self.connection: "none", "open", "closed"
    db,                    \* the tables as the open transaction sees them
    committed,             \* the tables as last committed
    autoinc,               \* the store's AUTO_INCREMENT counter of each table
    pc,                    \* position inside load()
    idx,                   \* position of the running iterrows() loop
    customer_id_mapping,   \* load(): customer_id_mapping
    product_id_mapping,    \* load(): product_id_mapping
    orders_df,             \* load(): orders_df
    order_items_df,        \* load(): order_items_df
    order_id_mapping,      \* load(): order_id_mapping
    verified,              \* what verify_data_loaded printed
    run,                   \* number of the running call of load()
    failures,              \* injected store errors so far
    hist,                  \* history of the running call (observation only)
    returned,              \* what a standardize_* function called alone returned
    pads_year              \* whether strftime('%Y') of the platform pads with zeros

vars == <<raw, customers_df, products_df, sales_df, connection, db, committed,
          autoinc, pc, idx, customer_id_mapping, product_id_mapping,
          orders_df, order_items_df, order_id_mapping, verified, run,
          failures, hist, returned, pads_year>>

normalizer == <<returned, pads_year>>

data == <<raw, customers_df, products_df, sales_df>>
locals == <<customer_id_mapping, product_id_mapping, orders_df,
            order_items_df, order_id_mapping>>

EmptyStore == [t \in Tables |-> <<>>]

\* history of one call of load(): steps that returned, load steps that failed,
\* the DELETEs executed, whether the purge committed or raised, the counters
\* at the start of the call, the tables committed when the previous call ended,
\* and whether any store operation failed so far
NewHist(counters, before, wasClean) ==
    [finished |-> {}, failed |-> {}, deleted |-> <<>>, purge |-> "none",
     start |-> counters, previous |-> before, clean |-> wasClean]

\* ------------------------------------------------------- Order Aggregator
\* Series.mode() returns the most frequent values sorted ascending; the
\* statuses in that (alphabetical) order
StatusOrder == <<"Cancelled", "Completed", "Pending">>
StatusRank(s) == CHOOSE i \in 1..Len(StatusOrder) : StatusOrder[i] = s

RECURSIVE Concat(_)
Concat(ss) == IF ss = <<>> THEN <<>> ELSE Head(ss) \o Concat(Tail(ss))

\* lexicographic order of the groupby keys (db_customer_id, transaction_date)
KeyLess(a, b) == a[1] < b[1] \/ (a[1] = b[1] /\ a[2] < b[2])

\* groupby(...) iterates its groups in ascending key order (sort=True)
RECURSIVE SortedKeys(_)
SortedKeys(S) ==
    IF S = {} THEN <<>>
    ELSE LET m == CHOOSE x \in S : \A y \in S \ {x} : KeyLess(x, y)
         IN <<m>> \o SortedKeys(S \ {m})

\* sales_df['quantity'] * sales_df['unit_price']: NaN when either is missing
Subtotal(r) ==
    IF r.quantity = NaN \/ r.unit_price = NaN THEN NaN
    ELSE r.quantity * r.unit_price

\* Series.sum() skips NaN (skipna=True)
SumSkipNa(s) == SumSeq(SelectSeq(s, LAMBDA x : x # NaN))

\* MappedRows giving up at the first row it drops
MappedRowsUntilDropped(sales, cmap, pmap) ==
    SortedSeq({i \in 1..Len(sales) :
        \A j \in 1..i :
            /\ sales[j].customer_id # NaS
            /\ sales[j].product_id # NaS
            /\ sales[j].customer_id \in DOMAIN cmap
            /\ sales[j].product_id \in DOMAIN pmap})

\* positions of the rows that survive both filters: natural ids present and
\* both found in the mappings (Series.map gives NaN for a missing key)
MappedRows(sales, cmap, pmap) ==
    SortedSeq({i \in 1..Len(sales) :
        /\ sales[i].customer_id # NaS
        /\ sales[i].product_id # NaS
        /\ sales[i].customer_id \in DOMAIN cmap
        /\ sales[i].product_id \in DOMAIN pmap})

\* group['status'].mode()[0] if len(group['status'].mode()) > 0 else 'Completed'
StatusMode(statuses) ==
    LET present == {statuses[i] : i \in 1..Len(statuses)} \ {NaS}
        count(s) == Cardinality({i \in 1..Len(statuses) : statuses[i] = s})
        modes == {s \in present : \A t \in present : count(t) <= count(s)}
    IN IF modes = {} THEN "Completed"
       ELSE CHOOSE s \in modes : \A t \in modes : StatusRank(s) <= StatusRank(t)

\* transform_sales_to_orders without the groupby: one order for every row
transform_sales_to_orders_per_line(sales, cmap, pmap) ==
    LET rows == MappedRows(sales, cmap, pmap)
    IN [orders |->
            [k \in 1..Len(rows) |->
                [order_id |-> k,
                 customer_id |-> cmap[sales[rows[k]].customer_id],
                 order_date |-> sales[rows[k]].transaction_date,
                 total_amount |->
                     SumSkipNa(<<Subtotal(sales[rows[k]])>>),
                 status |-> StatusMode(<<sales[rows[k]].status>>)]],
        order_items |->
            [k \in 1..Len(rows) |->
                [order_id |-> k,
                 product_id |-> pmap[sales[rows[k]].product_id],
                 quantity |-> sales[rows[k]].quantity,
                 unit_price |-> sales[rows[k]].unit_price,
                 subtotal |-> Subtotal(sales[rows[k]]),
                 src |-> rows[k]]],
        raised |-> \E k \in 1..Len(rows) : sales[rows[k]].quantity = NaN]

\* transform_sales_to_orders: the orders and order items built from the
\* cleansed sales and the two id mappings.  raised: int(item['quantity']) on a
\* missing quantity raises ValueError and nothing is returned.  src is the
\* position of the sales row an item was built from (observation only).
transform_sales_to_orders(sales, cmap, pmap) ==
    LET rows == MappedRows(sales, cmap, pmap)
        keyOf(i) == <<cmap[sales[i].customer_id], sales[i].transaction_date>>
        grouped == SelectSeq(rows, LAMBDA i : sales[i].transaction_date # NaN)
        keys == SortedKeys({keyOf(grouped[j]) : j \in 1..Len(grouped)})
        group(k) == SelectSeq(grouped, LAMBDA i : keyOf(i) = keys[k])
        order(k) ==
            [order_id |-> k,
             customer_id |-> keys[k][1],
             order_date |-> keys[k][2],
             total_amount |->
                 SumSkipNa([j \in 1..Len(group(k)) |-> Subtotal(sales[group(k)[j]])]),
             status |->
                 StatusMode([j \in 1..Len(group(k)) |-> sales[group(k)[j]].status])]
        item(k, i) ==
            [order_id |-> k,
             product_id |-> pmap[sales[i].product_id],
             quantity |-> sales[i].quantity,
             unit_price |-> sales[i].unit_price,
             subtotal |-> Subtotal(sales[i]),
             src |-> i]
    IN [orders |-> [k \in 1..Len(keys) |-> order(k)],
        order_items |->
            Concat([k \in 1..Len(keys) |->
                       [j \in 1..Len(group(k)) |-> item(k, group(k)[j])]]),
        raised |-> \E j \in 1..Len(grouped) : sales[grouped[j]].quantity = NaN]

\* ------------------------------------------------------------- the store
\* the constraints create_tables() declares: customers.email UNIQUE, and the
\* foreign keys orders.customer_id, order_items.order_id, order_items.product_id
ConstraintOk(t, row, view) ==
    CASE t = "customers" ->
            \A i \in 1..Len(view.customers) : view.customers[i].email # row.email
      [] t = "products" -> TRUE
      [] t = "orders" ->
            \E i \in 1..Len(view.customers) :
                view.customers[i].customer_id = row.customer_id
      [] t = "order_items" ->
            /\ \E i \in 1..Len(view.orders) : view.orders[i].order_id = row.order_id
            /\ \E i \in 1..Len(view.products) :
                   view.products[i].product_id = row.product_id

\* DELETE FROM t is refused while rows of a child table reference t
DeleteOk(t, view) ==
    CASE t = "customers" -> view.orders = <<>>
      [] t = "products" -> view.order_items = <<>>
      [] t = "orders" -> view.order_items = <<>>
      [] t = "order_items" -> TRUE

\* an operation on the store raises mysql.connector.Error: a violated
\* constraint, or a connectivity error (at most MaxFailures of these)
StoreRaises(ok) == ~ok \/ failures < MaxFailures
CountFailure(ok) == failures' = IF ok THEN failures + 1 ELSE failures

\* ------------------------------------------------------------------ load()
\* mutant of LoadSteps: products are loaded before customers
LoadStepsProductsFirst ==
    <<"purge", "products", "customers", "transform", "orders", "rewrite",
      "items", "verify", "close">>

\* the steps of load() after connect_to_mysql() and create_tables(), in the
\* order the method runs them
LoadSteps == <<"purge", "customers", "products", "transform", "orders",
               "rewrite", "items", "verify", "close">>

StepAfter(step) ==
    LET i == CHOOSE j \in 1..Len(LoadSteps) : LoadSteps[j] = step
    IN IF i = Len(LoadSteps) THEN "done" ELSE LoadSteps[i + 1]

\* mutant of PurgeOrder: parents are deleted before children
PurgeParentsFirst == <<"products", "customers", "orders", "order_items">>

\* the DELETE statements of load(), in the order it executes them
PurgeOrder == <<"order_items", "orders", "customers", "products">>

\* bookkeeping of a step that returned
Returned(step, didFail) ==
    [hist EXCEPT !.finished = @ \cup {step},
                 !.failed = IF didFail THEN @ \cup {step} ELSE @,
                 !.clean = @ /\ ~didFail]

Goto(step, didFail) ==
    /\ pc' = StepAfter(step)
    /\ idx' = 1
    /\ hist' = Returned(step, didFail)

\* connect_to_mysql() succeeds; create_tables() is CREATE TABLE IF NOT EXISTS
\* and changes no row
connect_to_mysql ==
    /\ pc = "start"
    /\ connection' = "open"
    /\ pc' = LoadSteps[1]
    /\ idx' = 1
    /\ UNCHANGED <<normalizer, data, db, committed, autoinc, locals, verified, run,
                   failures, hist>>

\* "Failed to connect to database. Skipping load phase."
connect_failed ==
    /\ pc = "start"
    /\ failures < MaxFailures
    /\ failures' = failures + 1
    /\ pc' = "done"
    /\ hist' = [hist EXCEPT !.clean = FALSE]
    /\ UNCHANGED <<normalizer, data, connection, db, committed, autoinc, idx, locals,
                   verified, run>>

\* one DELETE FROM <table> of the purge
purge_delete ==
    /\ pc = "purge"
    /\ idx <= Len(PurgeOrder)
    /\ DeleteOk(PurgeOrder[idx], db)
    /\ db' = [db EXCEPT ![PurgeOrder[idx]] = <<>>]
    /\ idx' = idx + 1
    /\ hist' = [hist EXCEPT !.deleted = Append(@, PurgeOrder[idx])]
    /\ UNCHANGED <<normalizer, data, connection, committed, autoinc, pc, locals, verified,
                   run, failures>>

\* self.connection.commit() after the four DELETEs
purge_commit ==
    /\ pc = "purge"
    /\ idx > Len(PurgeOrder)
    /\ committed' = db
    /\ pc' = StepAfter("purge")
    /\ idx' = 1
    /\ hist' = [hist EXCEPT !.finished = @ \cup {"purge"}, !.purge = "committed"]
    /\ UNCHANGED <<normalizer, data, connection, db, autoinc, locals, verified, run,
                   failures>>

\* a DELETE raises: "Warning: Error clearing existing data", rollback, go on
purge_error ==
    /\ pc = "purge"
    /\ idx <= Len(PurgeOrder)
    /\ StoreRaises(DeleteOk(PurgeOrder[idx], db))
    /\ CountFailure(DeleteOk(PurgeOrder[idx], db))
    /\ db' = committed
    /\ pc' = StepAfter("purge")
    /\ idx' = 1
    /\ hist' = [hist EXCEPT !.finished = @ \cup {"purge"}, !.purge = "raised",
                            !.clean = FALSE]
    /\ UNCHANGED <<normalizer, data, connection, committed, autoinc, locals, verified, run>>

\* INSERT INTO t: the store assigns the next AUTO_INCREMENT value (lastrowid)
Insert(t, row) ==
    /\ db' = [db EXCEPT ![t] = Append(@, row)]
    /\ autoinc' = [autoinc EXCEPT ![t] = @ + 1]

\* ---- load_customers
CustomerRow(i) ==
    [customer_id |-> autoinc.customers,
     first_name |-> customers_df[i].first_name,
     email |-> customers_df[i].email]

\* "No customers data to load" / "Error: Not connected to database"
load_customers_nothing ==
    /\ pc = "customers"
    /\ (Len(customers_df) = 0 \/ connection # "open")
    /\ customer_id_mapping' = EmptyMap
    /\ Goto("customers", FALSE)
    /\ UNCHANGED <<normalizer, data, connection, db, committed, autoinc, product_id_mapping,
                   orders_df, order_items_df, order_id_mapping, verified, run,
                   failures>>

load_customers_insert ==
    /\ pc = "customers"
    /\ Len(customers_df) > 0 /\ connection = "open"
    /\ idx <= Len(customers_df)
    /\ ConstraintOk("customers", CustomerRow(idx), db)
    /\ Insert("customers", CustomerRow(idx))
    /\ customer_id_mapping' =
           Put(customer_id_mapping, customers_df[idx].customer_id, autoinc.customers)
    /\ idx' = idx + 1
    /\ UNCHANGED <<normalizer, data, connection, committed, pc, product_id_mapping,
                   orders_df, order_items_df, order_id_mapping, verified, run,
                   failures, hist>>

load_customers_commit ==
    /\ pc = "customers"
    /\ Len(customers_df) > 0 /\ connection = "open"
    /\ idx > Len(customers_df)
    /\ committed' = db
    /\ Goto("customers", FALSE)
    /\ UNCHANGED <<normalizer, data, connection, db, autoinc, locals, verified, run, failures>>

\* mutant of load_customers_except: the error is swallowed, neither rollback
\* nor empty mapping
load_customers_except_swallowed ==
    /\ db' = db
    /\ customer_id_mapping' = customer_id_mapping

\* load_customers_except returning the mapping built before the error
load_customers_except_keeps_mapping ==
    /\ db' = committed
    /\ customer_id_mapping' = customer_id_mapping

\* except Error as e: self.connection.rollback(); return {}
load_customers_except ==
    /\ db' = committed
    /\ customer_id_mapping' = EmptyMap

load_customers_error ==
    /\ pc = "customers"
    /\ Len(customers_df) > 0 /\ connection = "open"
    /\ idx <= Len(customers_df)
    /\ StoreRaises(ConstraintOk("customers", CustomerRow(idx), db))
    /\ CountFailure(ConstraintOk("customers", CustomerRow(idx), db))
    /\ load_customers_except
    /\ Goto("customers", TRUE)
    /\ UNCHANGED <<normalizer, data, connection, committed, autoinc, product_id_mapping,
                   orders_df, order_items_df, order_id_mapping, verified, run>>

\* ---- load_products
ProductRow(i) ==
    [product_id |-> autoinc.products,
     product_name |-> products_df[i].product_name]

load_products_nothing ==
    /\ pc = "products"
    /\ (Len(products_df) = 0 \/ connection # "open")
    /\ product_id_mapping' = EmptyMap
    /\ Goto("products", FALSE)
    /\ UNCHANGED <<normalizer, data, connection, db, committed, autoinc, customer_id_mapping,
                   orders_df, order_items_df, order_id_mapping, verified, run,
                   failures>>

load_products_insert ==
    /\ pc = "products"
    /\ Len(products_df) > 0 /\ connection = "open"
    /\ idx <= Len(products_df)
    /\ ConstraintOk("products", ProductRow(idx), db)
    /\ Insert("products", ProductRow(idx))
    /\ product_id_mapping' =
           Put(product_id_mapping, products_df[idx].product_id, autoinc.products)
    /\ idx' = idx + 1
    /\ UNCHANGED <<normalizer, data, connection, committed, pc, customer_id_mapping,
                   orders_df, order_items_df, order_id_mapping, verified, run,
                   failures, hist>>

load_products_commit ==
    /\ pc = "products"
    /\ Len(products_df) > 0 /\ connection = "open"
    /\ idx > Len(products_df)
    /\ committed' = db
    /\ Goto("products", FALSE)
    /\ UNCHANGED <<normalizer, data, connection, db, autoinc, locals, verified, run, failures>>

\* except Error as e: self.connection.rollback(); return {}
load_products_except ==
    /\ db' = committed
    /\ product_id_mapping' = EmptyMap

load_products_error ==
    /\ pc = "products"
    /\ Len(products_df) > 0 /\ connection = "open"
    /\ idx <= Len(products_df)
    /\ StoreRaises(ConstraintOk("products", ProductRow(idx), db))
    /\ CountFailure(ConstraintOk("products", ProductRow(idx), db))
    /\ load_products_except
    /\ Goto("products", TRUE)
    /\ UNCHANGED <<normalizer, data, connection, committed, autoinc, customer_id_mapping,
                   orders_df, order_items_df, order_id_mapping, verified, run>>

\* ---- transform_sales_to_orders, called by load()
transform_step ==
    /\ pc = "transform"
    /\ LET r == transform_sales_to_orders(sales_df, customer_id_mapping,
                                          product_id_mapping)
       IN /\ ~r.raised
          /\ orders_df' = r.orders
          /\ order_items_df' = r.order_items
    /\ Goto("transform", FALSE)
    /\ UNCHANGED <<normalizer, data, connection, db, committed, autoinc,
                   customer_id_mapping, product_id_mapping, order_id_mapping,
                   verified, run, failures>>

\* the ValueError of int(NaN) is caught nowhere: load() and run() end there
transform_raises ==
    /\ pc = "transform"
    /\ transform_sales_to_orders(sales_df, customer_id_mapping,
                                 product_id_mapping).raised
    /\ pc' = "crashed"
    /\ hist' = [hist EXCEPT !.clean = FALSE]
    /\ UNCHANGED <<normalizer, data, connection, db, committed, autoinc, idx, locals,
                   verified, run, failures>>

\* ---- load_orders
OrderRow(i) ==
    [order_id |-> autoinc.orders,
     customer_id |-> orders_df[i].customer_id,
     order_date |-> orders_df[i].order_date,
     total_amount |-> orders_df[i].total_amount,
     status |-> orders_df[i].status]

\* "No orders data to load": returns None.  load() uses the result only when
\* order_items_df is not empty, and then orders_df is not empty either, so
\* None is kept as the empty mapping
load_orders_nothing ==
    /\ pc = "orders"
    /\ (Len(orders_df) = 0 \/ connection # "open")
    /\ order_id_mapping' = EmptyMap
    /\ Goto("orders", FALSE)
    /\ UNCHANGED <<normalizer, data, connection, db, committed, autoinc,
                   customer_id_mapping, product_id_mapping, orders_df,
                   order_items_df, verified, run, failures>>

load_orders_insert ==
    /\ pc = "orders"
    /\ Len(orders_df) > 0 /\ connection = "open"
    /\ idx <= Len(orders_df)
    /\ ConstraintOk("orders", OrderRow(idx), db)
    /\ Insert("orders", OrderRow(idx))
    /\ order_id_mapping' =
           Put(order_id_mapping, orders_df[idx].order_id, autoinc.orders)
    /\ idx' = idx + 1
    /\ UNCHANGED <<normalizer, data, connection, committed, pc, customer_id_mapping,
                   product_id_mapping, orders_df, order_items_df, verified,
                   run, failures, hist>>

load_orders_commit ==
    /\ pc = "orders"
    /\ Len(orders_df) > 0 /\ connection = "open"
    /\ idx > Len(orders_df)
    /\ committed' = db
    /\ Goto("orders", FALSE)
    /\ UNCHANGED <<normalizer, data, connection, db, autoinc, locals, verified, run, failures>>

\* mutant of load_orders_except: the rollback is missing
load_orders_except_no_rollback ==
    /\ db' = db
    /\ order_id_mapping' = EmptyMap

\* except Error as e: self.connection.rollback(); return {}
load_orders_except ==
    /\ db' = committed
    /\ order_id_mapping' = EmptyMap

load_orders_error ==
    /\ pc = "orders"
    /\ Len(orders_df) > 0 /\ connection = "open"
    /\ idx <= Len(orders_df)
    /\ StoreRaises(ConstraintOk("orders", OrderRow(idx), db))
    /\ CountFailure(ConstraintOk("orders", OrderRow(idx), db))
    /\ load_orders_except
    /\ Goto("orders", TRUE)
    /\ UNCHANGED <<normalizer, data, connection, committed, autoinc, customer_id_mapping,
                   product_id_mapping, orders_df, order_items_df, verified, run>>

\* ---- load(): "Update order_items_df with database order_ids"
\* order_items_df['order_id'].map(order_id_mapping), then dropna
RewriteOrderIds(items, omap) ==
    SelectSeq([i \in 1..Len(items) |->
                  [items[i] EXCEPT !.order_id =
                       IF @ \in DOMAIN omap THEN omap[@] ELSE NaN]],
              LAMBDA r : r.order_id # NaN)

rewrite_order_ids ==
    /\ pc = "rewrite"
    /\ Len(order_items_df) > 0
    /\ order_items_df' = RewriteOrderIds(order_items_df, order_id_mapping)
    /\ Goto("rewrite", FALSE)
    /\ UNCHANGED <<normalizer, data, connection, db, committed, autoinc,
                   customer_id_mapping, product_id_mapping, orders_df,
                   order_id_mapping, verified, run, failures>>

\* len(order_items_df) == 0: load_order_items is not called
rewrite_skipped ==
    /\ pc = "rewrite"
    /\ Len(order_items_df) = 0
    /\ pc' = StepAfter("items")
    /\ idx' = 1
    /\ hist' = [hist EXCEPT !.finished = @ \cup {"rewrite"}]
    /\ UNCHANGED <<normalizer, data, connection, db, committed, autoinc, locals, verified,
                   run, failures>>

\* ---- load_order_items(order_items_df, order_id_mapping)
\* mutant of ItemOrderId: an id that is no key of the mapping is used as it is
ItemOrderIdPassThrough(items, omap, i) ==
    IF items[i].order_id \in DOMAIN omap THEN omap[items[i].order_id]
    ELSE items[i].order_id

\* order_id_mapping.get(int(row['order_id'])): NaN stands for None
ItemOrderId(items, omap, i) ==
    IF items[i].order_id \in DOMAIN omap THEN omap[items[i].order_id] ELSE NaN

ItemRow(i) ==
    [order_item_id |-> autoinc.order_items,
     order_id |-> ItemOrderId(order_items_df, order_id_mapping, i),
     product_id |-> order_items_df[i].product_id,
     quantity |-> order_items_df[i].quantity,
     unit_price |-> order_items_df[i].unit_price,
     subtotal |-> order_items_df[i].subtotal,
     src |-> order_items_df[i].src]

\* "No order items data to load"
load_order_items_nothing ==
    /\ pc = "items"
    /\ (Len(order_items_df) = 0 \/ connection # "open")
    /\ Goto("items", FALSE)
    /\ UNCHANGED <<normalizer, data, connection, db, committed, autoinc, locals, verified,
                   run, failures>>

\* "Warning: Could not find order_id mapping": continue
load_order_items_skip ==
    /\ pc = "items"
    /\ Len(order_items_df) > 0 /\ connection = "open"
    /\ idx <= Len(order_items_df)
    /\ ItemOrderId(order_items_df, order_id_mapping, idx) = NaN
    /\ idx' = idx + 1
    /\ UNCHANGED <<normalizer, data, connection, db, committed, autoinc, pc, locals,
                   verified, run, failures, hist>>

load_order_items_insert ==
    /\ pc = "items"
    /\ Len(order_items_df) > 0 /\ connection = "open"
    /\ idx <= Len(order_items_df)
    /\ ItemOrderId(order_items_df, order_id_mapping, idx) # NaN
    /\ ConstraintOk("order_items", ItemRow(idx), db)
    /\ Insert("order_items", ItemRow(idx))
    /\ idx' = idx + 1
    /\ UNCHANGED <<normalizer, data, connection, committed, pc, locals, verified, run,
                   failures, hist>>

load_order_items_commit ==
    /\ pc = "items"
    /\ Len(order_items_df) > 0 /\ connection = "open"
    /\ idx > Len(order_items_df)
    /\ committed' = db
    /\ Goto("items", FALSE)
    /\ UNCHANGED <<normalizer, data, connection, db, autoinc, locals, verified, run, failures>>

\* except Error as e: self.connection.rollback()
load_order_items_except == db' = committed

load_order_items_error ==
    /\ pc = "items"
    /\ Len(order_items_df) > 0 /\ connection = "open"
    /\ idx <= Len(order_items_df)
    /\ ItemOrderId(order_items_df, order_id_mapping, idx) # NaN
    /\ StoreRaises(ConstraintOk("order_items", ItemRow(idx), db))
    /\ CountFailure(ConstraintOk("order_items", ItemRow(idx), db))
    /\ load_order_items_except
    /\ Goto("items", TRUE)
    /\ UNCHANGED <<normalizer, data, connection, committed, autoinc, locals, verified, run>>

\* ---- verify_data_loaded
\* rows of sales_df with customer_id and product_id present
Filterable(sales) ==
    SelectSeq(sales, LAMBDA r : r.customer_id # NaS /\ r.product_id # NaS)

\* mutant of ExpectedCounts: one order is expected for every sales row
ExpectedCountsPerRow ==
    [customers |-> Len(customers_df),
     products |-> Len(products_df),
     orders |-> Len(Filterable(sales_df)),
     order_items |-> Len(Filterable(sales_df))]

\* the expected counts; groupby(...).ngroups leaves out rows with a NaN key
ExpectedCounts ==
    LET f == Filterable(sales_df)
    IN [customers |-> Len(customers_df),
        products |-> Len(products_df),
        orders |-> Cardinality({<<f[i].customer_id, f[i].transaction_date>> :
                       i \in {j \in 1..Len(f) : f[j].transaction_date # NaN}}),
        order_items |-> Len(f)]

\* SELECT COUNT(*) of the four tables
PersistedCounts == [t \in Tables |-> Len(db[t])]

verify_data_loaded ==
    /\ pc = "verify"
    /\ connection = "open"
    /\ verified' = IF PersistedCounts = ExpectedCounts THEN "match" ELSE "mismatch"
    /\ Goto("verify", FALSE)
    /\ UNCHANGED <<normalizer, data, connection, db, committed, autoinc, locals, run, failures>>

\* "Error verifying data": nothing is reported
verify_error ==
    /\ pc = "verify"
    /\ connection = "open"
    /\ failures < MaxFailures
    /\ failures' = failures + 1
    /\ verified' = "error"
    /\ Goto("verify", FALSE)
    /\ UNCHANGED <<normalizer, data, connection, db, committed, autoinc, locals, run>>

\* self.connection.close()
close_connection ==
    /\ pc = "close"
    /\ connection' = "closed"
    /\ Goto("close", FALSE)
    /\ UNCHANGED <<normalizer, data, db, committed, autoinc, locals, verified, run, failures>>

\* the pipeline is run again on the same cleansed data and the same store
rerun ==
    /\ pc \in {"done", "crashed"}
    /\ run < MaxRuns
    /\ run' = run + 1
    /\ pc' = "start"
    /\ idx' = 1
    /\ connection' = "none"
    /\ db' = committed
    /\ customer_id_mapping' = EmptyMap
    /\ product_id_mapping' = EmptyMap
    /\ order_id_mapping' = EmptyMap
    /\ orders_df' = <<>>
    /\ order_items_df' = <<>>
    /\ verified' = "none"
    /\ hist' = NewHist(autoinc, committed, hist.clean)
    /\ UNCHANGED <<normalizer, data, committed, autoinc, failures>>

\* ------------------------------------------------------------ cleansed data
CustomerRows ==
    <<[customer_id |-> "c1", first_name |-> "ann", email |-> "ann@x"],
      [customer_id |-> "c2", first_name |-> "bob", email |-> "bob@x"]>>

ProductRows == <<[product_id |-> "p1", product_name |-> "pen"]>>

Prefixes(s) == {SubSeq(s, 1, n) : n \in 0..Len(s)}

\* cleansed sales rows: customer_id, product_id and transaction_date are
\* present (transform_sales drops the others); quantity may be missing
SalesRows ==
    [customer_id : {"c1", "c2"}, product_id : {"p1"}, quantity : {3},
     unit_price : {10}, transaction_date : {1, 2}, status : {"Completed"}]
    \cup {[customer_id |-> "c1", product_id |-> "p1", quantity |-> NaN,
           unit_price |-> 10, transaction_date |-> 1, status |-> "Completed"]}

SeqsUpTo(S, n) == UNION {[1..k -> S] : k \in 0..n}

Init ==
    /\ raw = <<>>
    /\ customers_df \in Prefixes(CustomerRows)
    /\ products_df \in Prefixes(ProductRows)
    /\ sales_df \in SeqsUpTo(SalesRows, MaxSales)
    /\ connection = "none"
    /\ db = EmptyStore
    /\ committed = EmptyStore
    /\ autoinc \in {[t \in Tables |-> IF t = "orders" THEN n ELSE 1] :
                       n \in 1..MaxStartId}
    /\ pc = "start"
    /\ idx = 1
    /\ customer_id_mapping = EmptyMap
    /\ product_id_mapping = EmptyMap
    /\ order_id_mapping = EmptyMap
    /\ orders_df = <<>>
    /\ order_items_df = <<>>
    /\ verified = "none"
    /\ run = 1
    /\ failures = 0
    /\ hist = NewHist(autoinc, EmptyStore, TRUE)
    /\ returned = <<>>
    /\ pads_year = TRUE

Next ==
    \/ connect_to_mysql \/ connect_failed
    \/ purge_delete \/ purge_commit \/ purge_error
    \/ load_customers_nothing \/ load_customers_insert
    \/ load_customers_commit \/ load_customers_error
    \/ load_products_nothing \/ load_products_insert
    \/ load_products_commit \/ load_products_error
    \/ transform_step \/ transform_raises
    \/ load_orders_nothing \/ load_orders_insert
    \/ load_orders_commit \/ load_orders_error
    \/ rewrite_order_ids \/ rewrite_skipped
    \/ load_order_items_nothing \/ load_order_items_skip
    \/ load_order_items_insert \/ load_order_items_commit
    \/ load_order_items_error
    \/ verify_data_loaded \/ verify_error
    \/ close_connection
    \/ rerun

Spec == Init /\ [][Next]_vars

\* --------------------------------------------------------------- SpecOrders
\* transform_sales_to_orders on its own: any cleansed sales collection of up
\* to MaxLines rows and any pair of id mappings handed to it
SalesLines ==
    [customer_id : {"c1", "c2"}, product_id : {"p1"},
     quantity : {1, 3}, unit_price : {10}, transaction_date : {1, 2},
     status : {"Completed", "Pending"}]
    \cup [customer_id : {"c1"}, product_id : {"p1"}, quantity : {3},
          unit_price : {NaN}, transaction_date : {1}, status : {"Completed"}]
    \cup [customer_id : {"c1"}, product_id : {"p1"}, quantity : {NaN},
          unit_price : {10}, transaction_date : {1}, status : {"Completed"}]
    \cup [customer_id : {"c3", NaS}, product_id : {"p1"}, quantity : {3},
          unit_price : {10}, transaction_date : {1}, status : {"Completed"}]
    \cup [customer_id : {"c1"}, product_id : {"p2", NaS}, quantity : {3},
          unit_price : {10}, transaction_date : {1}, status : {"Cancelled"}]

\* the mappings load_customers and load_products can return for c1, c2 and p1
CustomerMappings ==
    {EmptyMap, [c \in {"c1", "c2"} |-> IF c = "c1" THEN 1 ELSE 2],
     [c \in {"c1", "c2"} |-> IF c = "c1" THEN 5 ELSE 4]}

ProductMappings == {EmptyMap, [p \in {"p1"} |-> 7]}

InitOrders ==
    /\ raw = <<>>
    /\ customers_df = <<>>
    /\ products_df = <<>>
    /\ sales_df \in SeqsUpTo(SalesLines, MaxLines)
    /\ customer_id_mapping \in CustomerMappings
    /\ product_id_mapping \in ProductMappings
    /\ connection = "none"
    /\ db = EmptyStore
    /\ committed = EmptyStore
    /\ autoinc = [t \in Tables |-> 1]
    /\ pc = "start"
    /\ idx = 1
    /\ order_id_mapping = EmptyMap
    /\ orders_df = <<>>
    /\ order_items_df = <<>>
    /\ verified = "none"
    /\ run = 1
    /\ failures = 0
    /\ hist = NewHist(autoinc, EmptyStore, TRUE)
    /\ returned = <<>>
    /\ pads_year = TRUE

\* the method returns (orders_df, order_items_df)
aggregate_returns ==
    /\ pc = "start"
    /\ LET r == transform_sales_to_orders(sales_df, customer_id_mapping,
                                          product_id_mapping)
       IN /\ ~r.raised
          /\ orders_df' = r.orders
          /\ order_items_df' = r.order_items
    /\ pc' = "aggregated"
    /\ UNCHANGED <<normalizer, data, connection, db, committed, autoinc, idx,
                   customer_id_mapping, product_id_mapping, order_id_mapping,
                   verified, run, failures, hist>>

\* the method raises ValueError
aggregate_raises ==
    /\ pc = "start"
    /\ transform_sales_to_orders(sales_df, customer_id_mapping,
                                 product_id_mapping).raised
    /\ pc' = "raised"
    /\ UNCHANGED <<normalizer, data, connection, db, committed, autoinc, idx, locals,
                   verified, run, failures, hist>>

NextOrders == aggregate_returns \/ aggregate_raises

SpecOrders == InitOrders /\ [][NextOrders]_vars

\* ------------------------------------------------------------ SpecCustomers
\* transform_customers on its own.  A string whose characters matter (names,
\* email, phone, registration_date) is the sequence of its characters, and a
\* missing value of such a column (NaN / None) is Missing.
Missing == <<"NaN">>

DigitChars == <<"0", "1", "2", "3", "4", "5", "6", "7", "8", "9">>

\* re: \d
IsDigit(c) == \E i \in 1..Len(DigitChars) : DigitChars[i] = c

DigitVal(c) == (CHOOSE i \in 1..Len(DigitChars) : DigitChars[i] = c) - 1

AllDigits(s) == \A i \in 1..Len(s) : IsDigit(s[i])

\* int(s) of a string of digits
RECURSIVE Value(_)
Value(s) ==
    IF s = <<>> THEN 0
    ELSE Value(SubSeq(s, 1, Len(s) - 1)) * 10 + DigitVal(s[Len(s)])

\* str(n) of a natural number
RECURSIVE DigitsOf(_)
DigitsOf(n) ==
    IF n < 10 THEN <<DigitChars[n + 1]>>
    ELSE DigitsOf(n \div 10) \o <<DigitChars[(n % 10) + 1]>>

\* '%0<w>d'
RECURSIVE ZeroPad(_, _)
ZeroPad(s, w) == IF Len(s) >= w THEN s ELSE ZeroPad(<<"0">> \o s, w)

\* str.lower() on the letters of the raw data
UpperCase == <<"A", "B", "L", "R">>
LowerCase == <<"a", "b", "l", "r">>
LowerChar(c) ==
    IF \E i \in 1..Len(UpperCase) : UpperCase[i] = c
    THEN LowerCase[CHOOSE i \in 1..Len(UpperCase) : UpperCase[i] = c]
    ELSE c
Lower(s) == [i \in 1..Len(s) |-> LowerChar(s[i])]

\* standardize_phone keeping the FIRST ten digits of a longer number
standardize_phone_first_ten(phone) ==
    IF phone = Missing \/ phone = <<>> THEN Missing
    ELSE LET digits_only == SelectSeq(phone, IsDigit)
         IN IF Len(digits_only) >= 10
            THEN <<"+", "9", "1", "-">> \o SubSeq(digits_only, 1, 10)
            ELSE Missing

\* ---- standardize_phone
standardize_phone(phone) ==
    IF phone = Missing \/ phone = <<>> THEN Missing
    ELSE LET digits_only == SelectSeq(phone, IsDigit)
             n == Len(digits_only)
             prefix == <<"+", "9", "1", "-">>
         IN CASE n = 10 -> prefix \o digits_only
              [] n = 12 /\ SubSeq(digits_only, 1, 2) = <<"9", "1">> ->
                     prefix \o SubSeq(digits_only, 3, n)
              [] n = 11 /\ Head(digits_only) = "0" ->
                     prefix \o SubSeq(digits_only, 2, n)
              [] n >= 10 /\ n # 10
                    /\ ~(n = 12 /\ SubSeq(digits_only, 1, 2) = <<"9", "1">>)
                    /\ ~(n = 11 /\ Head(digits_only) = "0") ->
                     prefix \o SubSeq(digits_only, n - 9, n)
              [] OTHER -> Missing

\* ---- standardize_date
\* str.strip()
RECURSIVE Strip(_)
Strip(s) ==
    IF s # <<>> /\ Head(s) = " " THEN Strip(Tail(s))
    ELSE IF s # <<>> /\ s[Len(s)] = " "
         THEN Strip(SubSeq(s, 1, Len(s) - 1))
         ELSE s

\* the fields of s between the occurrences of the literal sep
RECURSIVE Split(_, _)
Split(s, sep) ==
    IF \A i \in 1..Len(s) : s[i] # sep THEN <<s>>
    ELSE LET i == CHOOSE k \in 1..Len(s) :
                      s[k] = sep /\ \A j \in 1..(k - 1) : s[j] # sep
         IN <<SubSeq(s, 1, i - 1)>> \o Split(SubSeq(s, i + 1, Len(s)), sep)

\* date_formats, in the order they are tried: %Y-%m-%d, %d/%m/%Y, %m-%d-%Y,
\* %d-%m-%Y, %m/%d/%Y
date_formats ==
    <<[sep |-> "-", order |-> <<"Y", "m", "d">>],
      [sep |-> "/", order |-> <<"d", "m", "Y">>],
      [sep |-> "-", order |-> <<"m", "d", "Y">>],
      [sep |-> "-", order |-> <<"d", "m", "Y">>],
      [sep |-> "/", order |-> <<"m", "d", "Y">>]>>

\* the regular expression strptime compiles for a directive: %Y is four
\* digits, %m is 1[0-2]|0[1-9]|[1-9], %d is 3[01]|[12]\d|0[1-9]|[1-9]| [1-9]
FieldMatches(directive, f) ==
    CASE directive = "Y" -> Len(f) = 4 /\ AllDigits(f)
      [] directive = "m" ->
             AllDigits(f) /\ Len(f) \in 1..2 /\ Value(f) \in 1..12
      [] directive = "d" ->
             \/ AllDigits(f) /\ Len(f) \in 1..2 /\ Value(f) \in 1..31
             \/ Len(f) = 2 /\ f[1] = " " /\ IsDigit(f[2]) /\ f[2] # "0"

IsLeap(y) == (y % 4 = 0 /\ y % 100 # 0) \/ y % 400 = 0

DaysInMonth(y, m) ==
    IF m = 2 THEN (IF IsLeap(y) THEN 29 ELSE 28)
    ELSE IF m \in {4, 6, 9, 11} THEN 30 ELSE 31

\* datetime.strptime(s, fmt): ok = FALSE is ValueError
strptime(s, fmt) ==
    LET fields == Split(s, fmt.sep)
        At(directive) ==
            Value(SelectSeq(
                fields[CHOOSE i \in 1..3 : fmt.order[i] = directive],
                IsDigit))
        matches == /\ Len(fields) = 3
                   /\ \A i \in 1..3 : FieldMatches(fmt.order[i], fields[i])
    IN IF matches /\ At("Y") >= 1 /\ At("d") <= DaysInMonth(At("Y"), At("m"))
       THEN [ok |-> TRUE, year |-> At("Y"), month |-> At("m"),
             day |-> At("d")]
       ELSE [ok |-> FALSE, year |-> 0, month |-> 0, day |-> 0]

\* date_obj.strftime('%Y-%m-%d'); the C library of the platform decides
\* whether %Y pads a year below 1000 with zeros (zeroPad)
strftime(date_obj, zeroPad) ==
    (IF zeroPad THEN ZeroPad(DigitsOf(date_obj.year), 4)
     ELSE DigitsOf(date_obj.year))
    \o <<"-">> \o ZeroPad(DigitsOf(date_obj.month), 2)
    \o <<"-">> \o ZeroPad(DigitsOf(date_obj.day), 2)

standardize_date(date_str, zeroPad) ==
    IF date_str = Missing \/ date_str = <<>> THEN Missing
    ELSE LET s == Strip(date_str)
             parsed == [k \in 1..Len(date_formats) |->
                           strptime(s, date_formats[k])]
             hits == {k \in 1..Len(date_formats) : parsed[k].ok}
         IN IF hits = {} THEN Missing
            ELSE strftime(parsed[CHOOSE k \in hits : \A h \in hits : k <= h],
                          zeroPad)

\* ---- transform_customers
\* drop_duplicates(subset=['customer_id'], keep='last')
LastOccurrences(rows) ==
    LET kept == {i \in 1..Len(rows) :
                    \A j \in (i + 1)..Len(rows) :
                        rows[j].customer_id # rows[i].customer_id}
        at == SortedSeq(kept)
    IN [k \in 1..Len(at) |-> rows[at[k]]]

\* drop_duplicates(subset=['customer_id'], keep='first'); missing ids are
\* duplicates of one another
FirstOccurrences(rows) ==
    LET kept == {i \in 1..Len(rows) :
                    \A j \in 1..(i - 1) :
                        rows[j].customer_id # rows[i].customer_id}
        at == SortedSeq(kept)
    IN [k \in 1..Len(at) |-> rows[at[k]]]

\* the email of a row after the fill: a missing name makes the sum NaN
FilledEmail(r) ==
    IF r.email # Missing THEN r.email
    ELSE IF r.first_name = Missing \/ r.last_name = Missing THEN Missing
    ELSE Lower(r.first_name) \o <<".">> \o Lower(r.last_name)
         \o <<"@", "u", "n", "k", "n", "o", "w", "n", ".", "c", "o", "m">>

\* read_csv gives a column without any value the dtype float64, and .str on
\* such a column raises AttributeError
NoStrAccessor(rows, column) ==
    \A i \in 1..Len(rows) : rows[i][column] = Missing

\* the fill is reached with an email missing and fails on .str
FillRaises(rows) ==
    /\ \E i \in 1..Len(FirstOccurrences(rows)) :
           FirstOccurrences(rows)[i].email = Missing
    /\ NoStrAccessor(rows, "first_name") \/ NoStrAccessor(rows, "last_name")

Cleansed(rows, zeroPad) ==
    LET df == FirstOccurrences(rows)
    IN [k \in 1..Len(df) |->
           [id |-> k,
            customer_id |-> df[k].customer_id,
            first_name |-> df[k].first_name,
            last_name |-> df[k].last_name,
            email |-> FilledEmail(df[k]),
            phone |-> standardize_phone(df[k].phone),
            city |-> df[k].city,
            registration_date |->
                standardize_date(df[k].registration_date, zeroPad)]]

\* raw customer rows as read_csv delivers them
RawCustomers ==
    {[customer_id |-> "c1", first_name |-> <<"A", "n", "n">>,
      last_name |-> <<"L", "e", "e">>, email |-> <<"a", "@", "x">>,
      phone |-> <<"9", "8", "7", "6", "5", "4", "3", "2", "1", "0">>,
      city |-> "Pune",
      registration_date |->
          <<"2", "0", "2", "4", "-", "0", "1", "-", "1", "5">>],
     [customer_id |-> "c1", first_name |-> <<"B", "o", "b">>,
      last_name |-> <<"R", "o", "y">>, email |-> Missing,
      phone |-> <<"+", "9", "1", " ", "9", "8", "7", "6", "5", "4", "3",
                  "2", "1", "1">>,
      city |-> "Delhi",
      registration_date |->
          <<"1", "5", "/", "0", "1", "/", "2", "0", "2", "4">>],
     [customer_id |-> "c2", first_name |-> <<"B", "o", "b">>,
      last_name |-> <<"R", "o", "y">>, email |-> Missing,
      phone |-> <<"0", "9", "8", "7", "6", "5", "4", "3", "2", "1", "2">>,
      city |-> "Delhi",
      registration_date |->
          <<"0", "1", "-", "2", "2", "-", "2", "0", "2", "4">>],
     [customer_id |-> "c2", first_name |-> Missing,
      last_name |-> <<"L", "e", "e">>, email |-> Missing,
      phone |-> Missing, city |-> "Pune", registration_date |-> Missing],
     [customer_id |-> "c3", first_name |-> <<"A", "n", "n">>,
      last_name |-> Missing, email |-> <<"b", "@", "x">>,
      phone |-> <<"9", "8", "7", "-", "6", "5", "4">>, city |-> "Pune",
      registration_date |-> <<" ", "3", "1", "/", "0", "2", "/", "2", "0",
                              "2", "4">>],
     [customer_id |-> "c3", first_name |-> <<"A", "n", "n">>,
      last_name |-> <<"L", "e", "e">>, email |-> Missing,
      phone |-> <<"1", "2", "3", "9", "8", "7", "6", "5", "4", "3", "2",
                  "1", "3">>,
      city |-> "Pune",
      registration_date |->
          <<"0", "9", "9", "9", "-", "2", "-", "5">>],
     [customer_id |-> NaS, first_name |-> <<"B", "o", "b">>,
      last_name |-> <<"L", "e", "e">>, email |-> <<"c", "@", "x">>,
      phone |-> <<>>, city |-> "Delhi",
      registration_date |->
          <<"1", "5", "-", "0", "4", "-", "2", "0", "2", "3">>]}

InitCustomers ==
    /\ raw \in SeqsUpTo(RawCustomers, MaxRaw)
    /\ customers_df = <<>>
    /\ products_df = <<>>
    /\ sales_df = <<>>
    /\ connection = "none"
    /\ db = EmptyStore
    /\ committed = EmptyStore
    /\ autoinc = [t \in Tables |-> 1]
    /\ pc = "start"
    /\ idx = 1
    /\ customer_id_mapping = EmptyMap
    /\ product_id_mapping = EmptyMap
    /\ order_id_mapping = EmptyMap
    /\ orders_df = <<>>
    /\ order_items_df = <<>>
    /\ verified = "none"
    /\ run = 1
    /\ failures = 0
    /\ hist = NewHist(autoinc, EmptyStore, TRUE)
    /\ returned = <<>>
    /\ pads_year = TRUE

\* the method returns the cleansed DataFrame
transform_customers ==
    /\ pc = "start"
    /\ ~FillRaises(raw)
    /\ \E zeroPad \in BOOLEAN : customers_df' = Cleansed(raw, zeroPad)
    /\ pc' = "cleansed"
    /\ UNCHANGED <<normalizer, raw, products_df, sales_df, connection, db, committed,
                   autoinc, idx, locals, verified, run, failures, hist>>

\* the method raises AttributeError
transform_customers_raises ==
    /\ pc = "start"
    /\ FillRaises(raw)
    /\ pc' = "raised"
    /\ UNCHANGED <<normalizer, data, connection, db, committed, autoinc, idx, locals,
                   verified, run, failures, hist>>

NextCustomers == transform_customers \/ transform_customers_raises

SpecCustomers == InitCustomers /\ [][NextCustomers]_vars

\* ------------------------------------------------------------- SpecProducts
\* transform_products on its own.  Prices are counted in a unit small enough
\* for every median taken below to be a whole number of units.

\* Series.sort_values() on the values of s
RECURSIVE SortedValues(_)
SortedValues(s) ==
    IF s = <<>> THEN <<>>
    ELSE LET i == CHOOSE k \in 1..Len(s) : \A j \in 1..Len(s) : s[k] <= s[j]
         IN <<s[i]>> \o SortedValues(SubSeq(s, 1, i - 1)
                                     \o SubSeq(s, i + 1, Len(s)))

\* Series.median(): NaN is skipped, and the median of no value is NaN
Median(s) ==
    LET v == SortedValues(SelectSeq(s, LAMBDA x : x # NaN))
        n == Len(v)
    IN IF n = 0 THEN NaN
       ELSE IF n % 2 = 1 THEN v[(n + 1) \div 2]
       ELSE (v[n \div 2] + v[n \div 2 + 1]) \div 2

Prices(df) == [i \in 1..Len(df) |-> df[i].price]

\* str.upper() on the letters of the raw data
UpperChar(c) ==
    IF \E i \in 1..Len(LowerCase) : LowerCase[i] = c
    THEN UpperCase[CHOOSE i \in 1..Len(LowerCase) : LowerCase[i] = c]
    ELSE c

IsLetter(c) == LowerChar(c) # UpperChar(c)

\* str.title(): a letter is upper-cased at the start of a word and
\* lower-cased inside it
Title(s) ==
    [i \in 1..Len(s) |->
        IF i = 1 \/ ~IsLetter(s[i - 1]) THEN UpperChar(s[i])
        ELSE LowerChar(s[i])]

\* ---- standardize_category
standardize_category(category) ==
    IF category = Missing \/ category = <<>> THEN Missing
    ELSE Title(Strip(category))

\* ---- transform_products
\* drop_duplicates(subset=['product_id'], keep='first')
FirstProducts(rows) ==
    LET kept == {i \in 1..Len(rows) :
                    \A j \in 1..(i - 1) :
                        rows[j].product_id # rows[i].product_id}
        at == SortedSeq(kept)
    IN [k \in 1..Len(at) |-> rows[at[k]]]

\* df.groupby('category')['price'].median(): one entry per category of df as
\* it is written in the raw data (rows without a category are in no group)
category_medians(df) ==
    [c \in {df[i].category : i \in 1..Len(df)} \ {Missing} |->
        Median(Prices(SelectSeq(df, LAMBDA r : r.category = c)))]

\* the price from the category medians taken BEFORE the loop
FillFromCategory(df, medians, i) ==
    IF df[i].category \in DOMAIN medians /\ medians[df[i].category] # NaN
    THEN medians[df[i].category]
    ELSE NaN

\* the price df.at[idx, 'price'] receives: the category median, else the
\* median of df['price'] as the loop has left it so far
FillValue(df, medians, i) ==
    IF FillFromCategory(df, medians, i) # NaN
    THEN FillFromCategory(df, medians, i)
    ELSE Median(Prices(df))

\* the loop over the rows whose price is missing, in row order
RECURSIVE FillPrices(_, _, _)
FillPrices(df, medians, todo) ==
    IF todo = <<>> THEN df
    ELSE FillPrices([df EXCEPT ![Head(todo)].price =
                                   FillValue(df, medians, Head(todo))],
                    medians, Tail(todo))

CleansedProducts(rows) ==
    LET df == FirstProducts(rows)
        missing == SortedSeq({i \in 1..Len(df) : df[i].price = NaN})
        filled == FillPrices(df, category_medians(df), missing)
    IN [k \in 1..Len(filled) |->
           [id |-> k,
            product_id |-> filled[k].product_id,
            category |-> standardize_category(filled[k].category),
            price |-> filled[k].price,
            stock_quantity |-> IF filled[k].stock_quantity = NaN THEN 0
                               ELSE filled[k].stock_quantity]]

\* raw product rows as read_csv delivers them
RawProducts ==
    {[product_id |-> "p1", category |-> <<"a", "l">>, price |-> 16,
      stock_quantity |-> 5],
     [product_id |-> "p2", category |-> <<"a", "l">>, price |-> NaN,
      stock_quantity |-> NaN],
     [product_id |-> "p3", category |-> <<"b">>, price |-> NaN,
      stock_quantity |-> 3],
     [product_id |-> "p4", category |-> <<"r", " ", "l", "B">>,
      price |-> 160, stock_quantity |-> 0],
     [product_id |-> "p1", category |-> <<"a", "l">>, price |-> 48,
      stock_quantity |-> NaN],
     [product_id |-> "p5", category |-> Missing, price |-> NaN,
      stock_quantity |-> 2],
     [product_id |-> "p6", category |-> <<" ", "A", "L">>, price |-> 32,
      stock_quantity |-> 4],
     [product_id |-> "p7", category |-> <<"a", "l">>, price |-> 32,
      stock_quantity |-> 1]}

InitProducts ==
    /\ raw \in SeqsUpTo(RawProducts, MaxProducts)
    /\ customers_df = <<>>
    /\ products_df = <<>>
    /\ sales_df = <<>>
    /\ connection = "none"
    /\ db = EmptyStore
    /\ committed = EmptyStore
    /\ autoinc = [t \in Tables |-> 1]
    /\ pc = "start"
    /\ idx = 1
    /\ customer_id_mapping = EmptyMap
    /\ product_id_mapping = EmptyMap
    /\ order_id_mapping = EmptyMap
    /\ orders_df = <<>>
    /\ order_items_df = <<>>
    /\ verified = "none"
    /\ run = 1
    /\ failures = 0
    /\ hist = NewHist(autoinc, EmptyStore, TRUE)
    /\ returned = <<>>
    /\ pads_year = TRUE

\* the method returns the cleansed DataFrame
transform_products ==
    /\ pc = "start"
    /\ products_df' = CleansedProducts(raw)
    /\ pc' = "cleansed"
    /\ UNCHANGED <<normalizer, raw, customers_df, sales_df, connection, db, committed,
                   autoinc, idx, locals, verified, run, failures, hist>>

SpecProducts == InitProducts /\ [][transform_products]_vars

\* ---------------------------------------------------------------- SpecSales
\* transform_sales on its own
\* drop_duplicates(subset=['transaction_id'], keep='last')
LastTransactions(rows) ==
    LET kept == {i \in 1..Len(rows) :
                    \A j \in (i + 1)..Len(rows) :
                        rows[j].transaction_id # rows[i].transaction_id}
        at == SortedSeq(kept)
    IN [k \in 1..Len(at) |-> rows[at[k]]]

\* drop_duplicates(subset=['transaction_id'], keep='first')
FirstTransactions(rows) ==
    LET kept == {i \in 1..Len(rows) :
                    \A j \in 1..(i - 1) :
                        rows[j].transaction_id # rows[i].transaction_id}
        at == SortedSeq(kept)
    IN [k \in 1..Len(at) |-> rows[at[k]]]

CleansedSales(rows, zeroPad) ==
    LET deduped == FirstTransactions(rows)
        with_customer == SelectSeq(deduped, LAMBDA r : r.customer_id # NaS)
        with_product ==
            SelectSeq(with_customer, LAMBDA r : r.product_id # NaS)
        dated == [k \in 1..Len(with_product) |->
                     [with_product[k] EXCEPT !.transaction_date =
                          standardize_date(@, zeroPad)]]
        valid == SelectSeq(dated, LAMBDA r : r.transaction_date # Missing)
    IN [k \in 1..Len(valid) |->
           [id |-> k,
            transaction_id |-> valid[k].transaction_id,
            customer_id |-> valid[k].customer_id,
            product_id |-> valid[k].product_id,
            quantity |-> valid[k].quantity,
            unit_price |-> valid[k].unit_price,
            transaction_date |-> valid[k].transaction_date,
            status |-> valid[k].status]]

\* raw sales rows as read_csv delivers them
RawSales ==
    {[transaction_id |-> "t1", customer_id |-> "c1", product_id |-> "p1",
      quantity |-> 3, unit_price |-> 10, status |-> "Completed",
      transaction_date |->
          <<"2", "0", "2", "4", "-", "0", "1", "-", "1", "5">>],
     [transaction_id |-> "t1", customer_id |-> "c2", product_id |-> "p1",
      quantity |-> 1, unit_price |-> 10, status |-> "Pending",
      transaction_date |->
          <<"1", "5", "/", "0", "1", "/", "2", "0", "2", "4">>],
     [transaction_id |-> "t2", customer_id |-> NaS, product_id |-> "p1",
      quantity |-> 3, unit_price |-> 10, status |-> "Completed",
      transaction_date |->
          <<"2", "0", "2", "4", "-", "0", "1", "-", "1", "5">>],
     [transaction_id |-> "t2", customer_id |-> "c2", product_id |-> "p1",
      quantity |-> 3, unit_price |-> NaN, status |-> "Completed",
      transaction_date |->
          <<"0", "3", "-", "0", "4", "-", "2", "0", "2", "3">>],
     [transaction_id |-> "t3", customer_id |-> "c1", product_id |-> NaS,
      quantity |-> 3, unit_price |-> 10, status |-> "Cancelled",
      transaction_date |->
          <<"0", "2", "/", "0", "2", "/", "2", "0", "2", "4">>],
     [transaction_id |-> "t4", customer_id |-> "c1", product_id |-> "p1",
      quantity |-> 3, unit_price |-> 10, status |-> "Completed",
      transaction_date |->
          <<"3", "1", "/", "0", "2", "/", "2", "0", "2", "4">>],
     [transaction_id |-> "t5", customer_id |-> "c2", product_id |-> "p1",
      quantity |-> NaN, unit_price |-> 10, status |-> "Completed",
      transaction_date |-> Missing],
     [transaction_id |-> NaS, customer_id |-> "c1", product_id |-> "p1",
      quantity |-> 2, unit_price |-> 10, status |-> "Pending",
      transaction_date |->
          <<" ", "0", "1", "-", "2", "2", "-", "2", "0", "2", "4", " ">>]}

InitSales ==
    /\ raw \in SeqsUpTo(RawSales, MaxRawSales)
    /\ customers_df = <<>>
    /\ products_df = <<>>
    /\ sales_df = <<>>
    /\ connection = "none"
    /\ db = EmptyStore
    /\ committed = EmptyStore
    /\ autoinc = [t \in Tables |-> 1]
    /\ pc = "start"
    /\ idx = 1
    /\ customer_id_mapping = EmptyMap
    /\ product_id_mapping = EmptyMap
    /\ order_id_mapping = EmptyMap
    /\ orders_df = <<>>
    /\ order_items_df = <<>>
    /\ verified = "none"
    /\ run = 1
    /\ failures = 0
    /\ hist = NewHist(autoinc, EmptyStore, TRUE)
    /\ returned = <<>>
    /\ pads_year = TRUE

\* the method returns the cleansed DataFrame
transform_sales ==
    /\ pc = "start"
    /\ \E zeroPad \in BOOLEAN : sales_df' = CleansedSales(raw, zeroPad)
    /\ pc' = "cleansed"
    /\ UNCHANGED <<normalizer, raw, customers_df, products_df, connection, db, committed,
                   autoinc, idx, locals, verified, run, failures, hist>>

SpecSales == InitSales /\ [][transform_sales]_vars

\* ---------------------------------------------------------------- SpecPhone
\* standardize_phone on its own: numbers of 0 to MaxTail + 3 digits, with
\* and without a 91 or 0 in front, written in four styles
PhonePattern ==
    <<"9", "8", "7", "6", "5", "4", "3", "2", "1", "0", "1", "2", "3", "4">>

PhoneLeads ==
    {<<>>, <<"9", "1">>, <<"0">>, <<"9">>, <<"0", "0">>, <<"9", "1", "0">>,
     <<"1">>}

PhoneStyles == {"plain", "plus", "dashed", "bracketed"}

Decorate(d, style) ==
    CASE style = "plain" -> d
      [] style = "plus" -> <<"+">> \o d
      [] style = "dashed" ->
             [i \in 1..(2 * Len(d)) |->
                 IF i % 2 = 1 THEN d[(i + 1) \div 2] ELSE "-"]
      [] style = "bracketed" -> <<" ", "(">> \o d \o <<")", " ">>

PhoneInputs ==
    {Missing, <<>>}
    \cup {Decorate(lead \o SubSeq(PhonePattern, 1, n), style) :
             lead \in PhoneLeads, n \in 0..MaxTail, style \in PhoneStyles}

InitPhone ==
    /\ raw \in PhoneInputs
    /\ customers_df = <<>>
    /\ products_df = <<>>
    /\ sales_df = <<>>
    /\ connection = "none"
    /\ db = EmptyStore
    /\ committed = EmptyStore
    /\ autoinc = [t \in Tables |-> 1]
    /\ pc = "start"
    /\ idx = 1
    /\ customer_id_mapping = EmptyMap
    /\ product_id_mapping = EmptyMap
    /\ order_id_mapping = EmptyMap
    /\ orders_df = <<>>
    /\ order_items_df = <<>>
    /\ verified = "none"
    /\ run = 1
    /\ failures = 0
    /\ hist = NewHist(autoinc, EmptyStore, TRUE)
    /\ returned = <<>>
    /\ pads_year = TRUE

\* standardize_phone(raw) returns
call_standardize_phone ==
    /\ pc = "start"
    /\ returned' = standardize_phone(raw)
    /\ pc' = "returned"
    /\ UNCHANGED <<data, connection, db, committed, autoinc, idx, locals,
                   verified, run, failures, hist, pads_year>>

SpecPhone == InitPhone /\ [][call_standardize_phone]_vars

\* ----------------------------------------------------------------- SpecDate
\* standardize_date on its own, and on its own output
DayMonthFields ==
    {<<"0", "3">>, <<"0", "4">>, <<"3">>, <<"1", "2">>, <<"1", "3">>,
     <<"3", "1">>, <<"2", "9">>, <<"3", "0">>, <<"0", "2">>, <<"0", "0">>,
     <<"3", "2">>, <<" ", "5">>}

YearFields ==
    {<<"2", "0", "2", "3">>, <<"2", "0", "2", "4">>, <<"1", "9", "0", "0">>,
     <<"0", "9", "9", "9">>, <<"0", "0", "0", "0">>, <<"2", "3">>}

DateSeparators == {"-", "/"}

DateInputs ==
    {Missing, <<>>, <<" ">>, <<"x">>,
     <<"2", "0", "2", "3", "-", "0", "3", "/", "0", "4">>,
     <<" ", "1", "5", "/", "0", "1", "/", "2", "0", "2", "4", " ">>,
     <<"2", "0", "2", "4", "-", "0", "1", "-", "1", "5", " ", "1", "0">>}
    \cup {y \o <<s>> \o a \o <<s>> \o b :
             y \in YearFields, a \in DayMonthFields, b \in DayMonthFields,
             s \in DateSeparators}
    \cup {a \o <<s>> \o b \o <<s>> \o y :
             y \in YearFields, a \in DayMonthFields, b \in DayMonthFields,
             s \in DateSeparators}

InitDate ==
    /\ raw \in DateInputs
    /\ pads_year \in BOOLEAN
    /\ returned = <<>>
    /\ customers_df = <<>>
    /\ products_df = <<>>
    /\ sales_df = <<>>
    /\ connection = "none"
    /\ db = EmptyStore
    /\ committed = EmptyStore
    /\ autoinc = [t \in Tables |-> 1]
    /\ pc = "start"
    /\ idx = 1
    /\ customer_id_mapping = EmptyMap
    /\ product_id_mapping = EmptyMap
    /\ order_id_mapping = EmptyMap
    /\ orders_df = <<>>
    /\ order_items_df = <<>>
    /\ verified = "none"
    /\ run = 1
    /\ failures = 0
    /\ hist = NewHist(autoinc, EmptyStore, TRUE)

\* standardize_date(raw) returns
call_standardize_date ==
    /\ pc = "start"
    /\ returned' = standardize_date(raw, pads_year)
    /\ pc' = "returned"
    /\ UNCHANGED <<data, connection, db, committed, autoinc, idx, locals,
                   verified, run, failures, hist, pads_year>>

\* standardize_date is called on the date it returned
call_standardize_date_again ==
    /\ pc = "returned"
    /\ returned # Missing
    /\ raw' = returned
    /\ returned' = standardize_date(returned, pads_year)
    /\ pc' = "reapplied"
    /\ UNCHANGED <<customers_df, products_df, sales_df, connection, db,
                   committed, autoinc, idx, locals, verified, run, failures,
                   hist, pads_year>>

NextDate == call_standardize_date \/ call_standardize_date_again

SpecDate == InitDate /\ [][NextDate]_vars

\* =================================================================== claims
\* ---- vocabulary of the claims about load()
StepTable(step) == IF step = "items" THEN "order_items" ELSE step

RowId(t, r) ==
    CASE t = "customers" -> r.customer_id
      [] t = "products" -> r.product_id
      [] t = "orders" -> r.order_id
      [] t = "order_items" -> r.order_item_id

\* rows of table t inserted by the running call of load()
NewRows(view, t) == SelectSeq(view[t], LAMBDA r : RowId(t, r) >= hist.start[t])

\* rows of table t that were there before the running call of load()
OldRows(view, t) == SelectSeq(view[t], LAMBDA r : RowId(t, r) < hist.start[t])

\* the step taken inserts a row into table t (the store assigns a new id)
Grows(t) == autoinc'[t] > autoinc[t] /\ Len(db'[t]) = Len(db[t]) + 1

AfterItems == pc \in {"verify", "close", "done"}

\* the local id of the Order that transform_sales_to_orders built from the
\* (customer, date) group of sales row i; 0 when there is none
OrderOfLine(i) ==
    LET ks == {k \in 1..Len(orders_df) :
                  /\ sales_df[i].customer_id \in DOMAIN customer_id_mapping
                  /\ orders_df[k].customer_id =
                         customer_id_mapping[sales_df[i].customer_id]
                  /\ orders_df[k].order_date = sales_df[i].transaction_date}
    IN IF ks = {} THEN 0 ELSE orders_df[CHOOSE k \in ks : TRUE].order_id

\* C1: after the load phase every row persisted in order_items by this call
\* carries the store-assigned order_id (order_id_mapping) of the Order built
\* from the (customer, date) group of the sales row the item came from,
\* whatever ids the store assigned.
C1_ItemsCarryOwnOrderId ==
    AfterItems =>
        \A i \in 1..Len(NewRows(committed, "order_items")) :
            LET r == NewRows(committed, "order_items")[i]
            IN /\ OrderOfLine(r.src) \in DOMAIN order_id_mapping
               /\ r.order_id = order_id_mapping[OrderOfLine(r.src)]

\* the rows a load step inserts, without the store-assigned id
StepRows(step) ==
    CASE step = "customers" ->
            [i \in 1..Len(customers_df) |->
                [first_name |-> customers_df[i].first_name,
                 email |-> customers_df[i].email]]
      [] step = "products" ->
            [i \in 1..Len(products_df) |->
                [product_name |-> products_df[i].product_name]]
      [] step = "orders" ->
            [i \in 1..Len(orders_df) |->
                [customer_id |-> orders_df[i].customer_id,
                 order_date |-> orders_df[i].order_date,
                 total_amount |-> orders_df[i].total_amount,
                 status |-> orders_df[i].status]]

WithoutId(t, r) ==
    CASE t = "customers" -> [first_name |-> r.first_name, email |-> r.email]
      [] t = "products" -> [product_name |-> r.product_name]
      [] t = "orders" ->
            [customer_id |-> r.customer_id, order_date |-> r.order_date,
             total_amount |-> r.total_amount, status |-> r.status]

MappingOf(step) ==
    CASE step = "customers" -> customer_id_mapping
      [] step = "products" -> product_id_mapping
      [] step = "orders" -> order_id_mapping

ParentSteps == {"customers", "products", "orders"}

\* C2: when load_customers, load_products or load_orders has failed on a store
\* error, none of the rows the step inserted is in the table (neither in the
\* open transaction nor committed), the step returned the empty mapping, and
\* the rows committed by the steps that succeeded are persisted unchanged.
C2_StepLocalRollback ==
    \A s \in hist.failed \cap ParentSteps :
        /\ NewRows(db, s) = <<>>
        /\ NewRows(committed, s) = <<>>
        /\ MappingOf(s) = EmptyMap
        /\ \A e \in (hist.finished \cap ParentSteps) \ hist.failed :
               LET rows == NewRows(committed, e)
               IN [i \in 1..Len(rows) |-> WithoutId(e, rows[i])] = StepRows(e)

\* C2 witness: load_orders failed after it had inserted an order, and the
\* customers committed before it are still there
C2_Witness ==
    /\ "orders" \in hist.failed
    /\ autoinc.orders > hist.start.orders
    /\ Len(NewRows(committed, "customers")) = 2
    /\ pc = "verify"

\* C3 as stated: once a load step has failed, no later step of the load phase
\* inserts a row into any table.
C3_RemainingStepsSkipped ==
    [][(hist.failed \cap ParentSteps # {}) => \A t \in Tables : ~Grows(t)]_vars

\* C3 amended: once a load step has failed, no later step inserts a row into
\* customers, orders or order_items; products still receives rows, and only
\* when the failed step is load_customers.
C3_DependentStepsInsertNothing ==
    [][(hist.failed \cap ParentSteps # {}) =>
          /\ ~Grows("customers") /\ ~Grows("orders") /\ ~Grows("order_items")
          /\ Grows("products") => hist.failed = {"customers"}]_vars

\* C3 witness: load_customers failed and load_products committed a row
C3_Witness ==
    /\ "customers" \in hist.failed
    /\ Len(NewRows(committed, "products")) > 0
    /\ Len(sales_df) > 0
    /\ pc = "verify"

\* the load steps that must have returned before table t receives a row
StepsBefore(t) ==
    CASE t = "customers" -> {}
      [] t = "products" -> {"customers"}
      [] t = "orders" -> {"customers", "products"}
      [] t = "order_items" -> {"customers", "products", "orders"}

\* C4: inserts happen in the order customers, products, orders, order_items:
\* a row is inserted into a table only after the steps of the tables before
\* it have returned (orders after customers, order_items after orders and
\* products).
C4_InsertOrder ==
    [][\A t \in Tables : Grows(t) => StepsBefore(t) \subseteq hist.finished]_vars

\* C4 witness: an order item has been inserted
C4_Witness ==
    /\ pc = "items"
    /\ Len(db.order_items) > Len(committed.order_items)

IsPrefix(s, t) == Len(s) <= Len(t) /\ s = SubSeq(t, 1, Len(s))

ChildFirst == <<"order_items", "orders", "customers", "products">>

\* C5 as stated: in every execution no row is inserted while a pre-existing
\* row of any of the four tables is still there, and the purge deletes
\* order_items, orders, customers, products in that order.
C5_PurgedBeforeAnyInsert ==
    [][/\ IsPrefix(hist.deleted, ChildFirst)
       /\ (\E t \in Tables : Grows(t)) =>
              \A u \in Tables : OldRows(db, u) = <<>>]_vars

\* C5 amended: the purge deletes order_items, orders, customers, products in
\* that order and always ends before the first insert; when it committed, no
\* pre-existing row is left at any insert; when a DELETE raised, the purge is
\* rolled back (every pre-existing row is still committed) and the load steps
\* run all the same.
C5_PurgeEndsBeforeAnyInsert ==
    [][/\ IsPrefix(hist.deleted, ChildFirst)
       /\ (\E t \in Tables : Grows(t)) =>
              /\ hist.purge \in {"committed", "raised"}
              /\ hist.purge = "committed" =>
                     /\ hist.deleted = ChildFirst
                     /\ \A u \in Tables : OldRows(db, u) = <<>>
       /\ hist.purge = "raised" =>
              \A u \in Tables : OldRows(committed, u) = hist.previous[u]]_vars

\* C5 witness: the second call found rows in all four tables, its purge
\* committed, and it has inserted a customer
C5_Witness ==
    /\ run = 2
    /\ \A t \in Tables : hist.previous[t] # <<>>
    /\ hist.purge = "committed"
    /\ pc = "customers"
    /\ Len(db.customers) > 0

\* the row of a table with store-assigned id n
RowWithId(view, t, n) ==
    LET is == {i \in 1..Len(view[t]) : RowId(t, view[t][i]) = n}
    IN view[t][CHOOSE i \in is : TRUE]

\* the contents of the four tables up to the store-assigned ids: each foreign
\* key is replaced by the contents of the row it references
Contents(view) ==
    LET customer(n) == WithoutId("customers", RowWithId(view, "customers", n))
        product(n) == WithoutId("products", RowWithId(view, "products", n))
        order(r) == [customer |-> customer(r.customer_id),
                     order_date |-> r.order_date,
                     total_amount |-> r.total_amount, status |-> r.status]
    IN [customers |-> [i \in 1..Len(view.customers) |->
                          WithoutId("customers", view.customers[i])],
        products |-> [i \in 1..Len(view.products) |->
                         WithoutId("products", view.products[i])],
        orders |-> [i \in 1..Len(view.orders) |-> order(view.orders[i])],
        order_items |->
            [i \in 1..Len(view.order_items) |->
                LET r == view.order_items[i]
                IN [order |-> order(RowWithId(view, "orders", r.order_id)),
                    product |-> product(r.product_id),
                    quantity |-> r.quantity, unit_price |-> r.unit_price,
                    subtotal |-> r.subtotal]]]

\* C6: when load() has run twice on the same cleansed data and no store
\* operation failed, the four tables hold the same rows, up to store-assigned
\* ids, as after the first run.
C6_RerunIdempotent ==
    (run = 2 /\ pc = "done" /\ hist.clean) =>
        Contents(committed) = Contents(hist.previous)

\* C7: load_order_items(items, orderIdMap), when no store error strikes it,
\* commits exactly the items whose order id is a key of orderIdMap, in order,
\* each under orderIdMap[order id]; the other items are skipped one by one
\* and the step does not fail.
C7_UnresolvedItemsSkipped ==
    (AfterItems /\ "items" \in hist.finished \ hist.failed) =>
        LET resolved == SelectSeq(order_items_df,
                            LAMBDA r : r.order_id \in DOMAIN order_id_mapping)
            rows == NewRows(committed, "order_items")
        IN /\ Len(rows) = Len(resolved)
           /\ \A i \in 1..Len(rows) :
                  /\ rows[i].order_id = order_id_mapping[resolved[i].order_id]
                  /\ rows[i].src = resolved[i].src
                  /\ rows[i].product_id = resolved[i].product_id
                  /\ rows[i].subtotal = resolved[i].subtotal

\* C7 witness: the step returned without failing, having skipped an item and
\* committed another
C7_Witness ==
    /\ AfterItems
    /\ "items" \in hist.finished \ hist.failed
    /\ Len(NewRows(committed, "order_items")) > 0
    /\ Len(NewRows(committed, "order_items")) < Len(order_items_df)

\* C9: verify_data_loaded reports a match exactly when the four persisted row
\* counts equal the number of cleansed customers, of cleansed products, of
\* distinct (customer, transaction_date) pairs among the cleansed sales rows
\* with both ids, and of such rows; after a mismatch the load phase goes on
\* to close the connection and return.
C9_VerifyMatchesExpectedCounts ==
    LET lines == {i \in 1..Len(sales_df) :
                     sales_df[i].customer_id # NaS /\ sales_df[i].product_id # NaS}
        pairs == {<<sales_df[i].customer_id, sales_df[i].transaction_date>> :
                     i \in lines}
        equal == /\ Len(db.customers) = Len(customers_df)
                 /\ Len(db.products) = Len(products_df)
                 /\ Len(db.orders) = Cardinality(pairs)
                 /\ Len(db.order_items) = Cardinality(lines)
    IN /\ verified = "match" => equal
       /\ verified = "mismatch" =>
              /\ ~equal
              /\ pc \in {"close", "done"}
              /\ pc = "done" => connection = "closed"

\* C9 witness: a mismatch was reported and load() returned with the
\* connection closed
C9_Witness ==
    /\ verified = "mismatch"
    /\ pc = "done"
    /\ connection = "closed"

\* C8: for every Order emitted by transform_sales_to_orders, total_amount is
\* the sum of quantity x unit_price over the OrderItems carrying its local
\* order id, and each of these items has that product as its subtotal.
C8_TotalIsSumOfSubtotals ==
    pc = "aggregated" =>
        \A k \in 1..Len(orders_df) :
            LET its == SelectSeq(order_items_df,
                           LAMBDA r : r.order_id = orders_df[k].order_id)
            IN /\ \A j \in 1..Len(its) :
                      /\ its[j].quantity # NaN
                      /\ its[j].unit_price # NaN
                      /\ its[j].subtotal = its[j].quantity * its[j].unit_price
               /\ orders_df[k].total_amount =
                      SumSeq([j \in 1..Len(its) |->
                                 its[j].quantity * its[j].unit_price])

\* ---- vocabulary of the claim about transform_customers
\* position in raw of the first row carrying customer_id c
FirstRow(c) ==
    CHOOSE i \in 1..Len(raw) :
        /\ raw[i].customer_id = c
        /\ \A j \in 1..(i - 1) : raw[j].customer_id # c

\* C10: transform_customers returns, for every customer_id of the raw rows,
\* exactly one Customer; it is made from the first raw row carrying that id
\* (id, names and city as in that row, a present email kept, phone and
\* registration date the normalised values of that row); the Customers stand
\* in the order of these first rows and carry the surrogate ids 1..N in that
\* order.
C10_FirstOccurrenceKept ==
    pc = "cleansed" =>
        LET ids == {raw[i].customer_id : i \in 1..Len(raw)}
            n == Len(customers_df)
        IN /\ n = Cardinality(ids)
           /\ \A c \in ids :
                  Cardinality({k \in 1..n :
                                  customers_df[k].customer_id = c}) = 1
           /\ \A k \in 1..n :
                  /\ customers_df[k].id = k
                  /\ customers_df[k].customer_id \in ids
                  /\ LET r == raw[FirstRow(customers_df[k].customer_id)]
                         kept == customers_df[k]
                     IN /\ kept.first_name = r.first_name
                        /\ kept.last_name = r.last_name
                        /\ kept.city = r.city
                        /\ r.email # Missing => kept.email = r.email
                        /\ kept.phone = standardize_phone(r.phone)
                        /\ \E zeroPad \in BOOLEAN :
                               kept.registration_date =
                                   standardize_date(r.registration_date,
                                                    zeroPad)
           /\ \A k, l \in 1..n :
                  k < l => FirstRow(customers_df[k].customer_id)
                               < FirstRow(customers_df[l].customer_id)

\* C10 witness: two raw rows with the same customer_id and different field
\* values, behind a row of another customer, were cleansed into two Customers
C10_Witness ==
    /\ pc = "cleansed"
    /\ Len(raw) = 3
    /\ Len(customers_df) = 2
    /\ raw[1].customer_id = raw[3].customer_id
    /\ raw[1] # raw[3]
    /\ raw[2].customer_id # raw[1].customer_id
    /\ customers_df[1].customer_id = raw[1].customer_id
    /\ customers_df[2].id = 2

\* C11: every Customer returned by transform_customers has an email (a
\* present one kept, a missing one synthesized from the lower-cased names),
\* whatever other fields of the raw rows are missing.
C11_EmailNeverNull ==
    pc = "cleansed" =>
        \A k \in 1..Len(customers_df) :
            LET r == raw[FirstRow(customers_df[k].customer_id)]
            IN /\ customers_df[k].email # Missing
               /\ r.email # Missing => customers_df[k].email = r.email

\* C12: no Product returned by transform_products has a null price or a null
\* stock_quantity, whichever prices, stock quantities and categories are
\* missing in the raw rows.
C12_PriceAndStockNeverNull ==
    pc = "cleansed" =>
        \A k \in 1..Len(products_df) :
            /\ products_df[k].price # NaN
            /\ products_df[k].stock_quantity # NaN

\* C13: a price present in the input is left unchanged; a missing price is
\* filled with the median of the input prices of the records of the same
\* category, and with the median of the input prices of all records only
\* when no record of that category has a price.
C13_MedianFill ==
    pc = "cleansed" =>
        LET df == FirstProducts(raw)
            priced(c) == SelectSeq(df, LAMBDA r : r.category = c
                                                  /\ r.price # NaN)
        IN \A k \in 1..Len(products_df) :
               LET r == df[k]
               IN products_df[k].price =
                      IF r.price # NaN THEN r.price
                      ELSE IF r.category # Missing
                               /\ Len(priced(r.category)) > 0
                           THEN Median(Prices(priced(r.category)))
                           ELSE Median(Prices(df))

\* ---- vocabulary of the claim about transform_sales
\* positions in raw of the rows that are the first of their transaction_id,
\* have a customer_id and a product_id, and whose date normalizes
Surviving ==
    {i \in 1..Len(raw) :
        /\ \A j \in 1..(i - 1) : raw[j].transaction_id # raw[i].transaction_id
        /\ raw[i].customer_id # NaS
        /\ raw[i].product_id # NaS
        /\ standardize_date(raw[i].transaction_date, TRUE) # Missing}

\* C14: transform_sales returns exactly the rows that are the first
\* occurrence of their transaction_id, have a customer_id and a product_id
\* and a date that normalizes; they keep their input order and carry the ids
\* 1..N in that order; no returned row lacks customer id, product id or date,
\* so the expected-count computation sees no row without a customer_id.
C14_SurvivingSales ==
    pc = "cleansed" =>
        LET at == SortedSeq(Surviving)
        IN /\ Len(sales_df) = Len(at)
           /\ \A k \in 1..Len(sales_df) :
                  LET r == raw[at[k]]
                      kept == sales_df[k]
                  IN /\ kept.id = k
                     /\ kept.transaction_id = r.transaction_id
                     /\ kept.customer_id = r.customer_id
                     /\ kept.product_id = r.product_id
                     /\ kept.quantity = r.quantity
                     /\ kept.unit_price = r.unit_price
                     /\ kept.status = r.status
                     /\ \E zeroPad \in BOOLEAN :
                            kept.transaction_date =
                                standardize_date(r.transaction_date, zeroPad)
                     /\ kept.customer_id # NaS
                     /\ kept.product_id # NaS
                     /\ kept.transaction_date # Missing
           /\ Filterable(sales_df) = sales_df

\* C14 witness: a raw collection with a row without customer_id and a
\* repeated transaction_id was cleansed, and a row survived
C14_Witness ==
    /\ pc = "cleansed"
    /\ \E i \in 1..Len(raw) : raw[i].customer_id = NaS
    /\ \E i, j \in 1..Len(raw) :
           /\ i < j
           /\ raw[i].transaction_id = raw[j].transaction_id
           /\ raw[i] # raw[j]
    /\ Len(sales_df) > 0

\* C15: with D the digits of the input, standardize_phone returns +91- and D
\* when D has 10 digits, +91- and the last 10 digits of D when D is longer
\* (12 digits after 91, 11 digits after 0, or any other length), and null
\* when D has fewer than 10 digits or the input is empty or null; a non-null
\* result is +91- followed by exactly 10 digits.
C15_PhoneNormalised ==
    pc = "returned" =>
        LET D == SelectSeq(raw, IsDigit)
            n == Len(D)
            prefix == <<"+", "9", "1", "-">>
        IN /\ (raw = Missing \/ raw = <<>>) => returned = Missing
           /\ (raw # Missing /\ raw # <<>>) =>
                  /\ n < 10 => returned = Missing
                  /\ n = 10 => returned = prefix \o D
                  /\ n > 10 => returned = prefix \o SubSeq(D, n - 9, n)
           /\ returned # Missing =>
                  /\ Len(returned) = 14
                  /\ SubSeq(returned, 1, 4) = prefix
                  /\ AllDigits(SubSeq(returned, 5, 14))

\* C15 witness: a number of 13 digits written with other characters was
\* cut to its last ten digits
C15_Witness ==
    /\ pc = "returned"
    /\ Len(SelectSeq(raw, IsDigit)) = 13
    /\ Len(raw) > 13
    /\ returned # Missing
    /\ returned[5] # SelectSeq(raw, IsDigit)[1]

\* C16: standardize_date is idempotent on its own output: applied to a date
\* it returned, it returns that date again.
C16_DateIdempotent ==
    pc = "reapplied" => returned = raw

\* ---- vocabulary of the claim about the date formats
\* the text YYYY-MM-DD of a date
Rendered(year, month, day) ==
    ZeroPad(DigitsOf(year), 4) \o <<"-">> \o ZeroPad(DigitsOf(month), 2)
    \o <<"-">> \o ZeroPad(DigitsOf(day), 2)

\* s is a-b-Y (sep "-") or a/b/Y (sep "/") with a and b between 1 and 12
\* and Y a year of four digits
AmbiguousWith(s, sep) ==
    LET f == Split(s, sep)
    IN /\ Len(f) = 3
       /\ \A i \in 1..2 :
              AllDigits(f[i]) /\ Len(f[i]) \in 1..2 /\ Value(f[i]) \in 1..12
       /\ Len(f[3]) = 4 /\ AllDigits(f[3]) /\ Value(f[3]) >= 1

\* C20: standardize_date returns the date parsed by the first of the formats
\* YYYY-MM-DD, DD/MM/YYYY, MM-DD-YYYY, DD-MM-YYYY, MM/DD/YYYY that parses
\* the input, written as YYYY-MM-DD; a-b-Y with a and b up to 12 is month a,
\* day b, and a/b/Y is day a, month b; an input that no format parses, or a
\* null or empty input, gives null.
C20_FirstFormatWins ==
    pc = "returned" =>
        LET s == Strip(raw)
            parsed(k) == strptime(s, date_formats[k])
            hits == {k \in 1..Len(date_formats) : parsed(k).ok}
            dash == Split(s, "-")
            slash == Split(s, "/")
        IN /\ date_formats[1].order = <<"Y", "m", "d">>
           /\ (raw = Missing \/ raw = <<>> \/ hits = {}) => returned = Missing
           /\ (raw # Missing /\ raw # <<>>) =>
                  \A k \in hits :
                      (\A j \in hits : k <= j) =>
                          returned = Rendered(parsed(k).year, parsed(k).month,
                                              parsed(k).day)
           /\ (raw # Missing /\ AmbiguousWith(s, "-")) =>
                  returned = Rendered(Value(dash[3]), Value(dash[1]),
                                      Value(dash[2]))
           /\ (raw # Missing /\ AmbiguousWith(s, "/")) =>
                  returned = Rendered(Value(slash[3]), Value(slash[2]),
                                      Value(slash[1]))

\* ---- vocabulary of the claims about transform_sales_to_orders
\* positions of the sales lines with both natural ids present and mapped
SurvivingLines ==
    {i \in 1..Len(sales_df) :
        /\ sales_df[i].customer_id # NaS
        /\ sales_df[i].product_id # NaS
        /\ sales_df[i].customer_id \in DOMAIN customer_id_mapping
        /\ sales_df[i].product_id \in DOMAIN product_id_mapping}

\* the key (persisted customer id, transaction_date) of a surviving line
LineKey(i) ==
    <<customer_id_mapping[sales_df[i].customer_id],
      sales_df[i].transaction_date>>

OrderKey(o) == <<o.customer_id, o.order_date>>

\* the surviving lines of an Order's key, in line order
LinesOf(o) == SortedSeq({i \in SurvivingLines : LineKey(i) = OrderKey(o)})

\* C17: transform_sales_to_orders emits one Order per distinct key
\* (persisted customer id, transaction_date) of the surviving lines, with
\* pairwise distinct local order ids, and one OrderItem per surviving line,
\* carrying the local id of the Order of the line's key; the items of one
\* Order stand in the order of their lines.
C17_OneOrderPerKey ==
    pc = "aggregated" =>
        LET keys == {LineKey(i) : i \in SurvivingLines}
            no == Len(orders_df)
            ni == Len(order_items_df)
        IN /\ no = Cardinality(keys)
           /\ \A key \in keys :
                  Cardinality({k \in 1..no : OrderKey(orders_df[k]) = key}) = 1
           /\ \A k, l \in 1..no :
                  k # l => orders_df[k].order_id # orders_df[l].order_id
           /\ ni = Cardinality(SurvivingLines)
           /\ \A i \in SurvivingLines :
                  Cardinality({j \in 1..ni : order_items_df[j].src = i}) = 1
           /\ \A j \in 1..ni :
                  /\ order_items_df[j].src \in SurvivingLines
                  /\ \E k \in 1..no :
                         /\ orders_df[k].order_id = order_items_df[j].order_id
                         /\ OrderKey(orders_df[k]) =
                                LineKey(order_items_df[j].src)
           /\ \A j, l \in 1..ni :
                  (j < l /\ order_items_df[j].order_id
                                = order_items_df[l].order_id)
                      => order_items_df[j].src < order_items_df[l].src

\* C17 witness: two lines of one key were merged into one Order of two items
C17_Witness ==
    /\ pc = "aggregated"
    /\ Len(orders_df) = 1
    /\ Len(order_items_df) = 2
    /\ sales_df[1] # sales_df[2]

\* C18: a sales line whose customer or product id is absent or unmapped
\* gives no OrderItem and counts in no Order's total or status; the other
\* lines are aggregated all the same and the call does not fail because of
\* it; with an empty customer or product mapping nothing is emitted.
C18_UnmappedLinesDropped ==
    /\ pc = "aggregated" =>
           /\ \A j \in 1..Len(order_items_df) :
                  order_items_df[j].src \in SurvivingLines
           /\ \A i \in SurvivingLines :
                  \E j \in 1..Len(order_items_df) : order_items_df[j].src = i
           /\ \A k \in 1..Len(orders_df) :
                  LET lines == LinesOf(orders_df[k])
                  IN /\ Len(lines) > 0
                     /\ orders_df[k].total_amount =
                            SumSkipNa([j \in 1..Len(lines) |->
                                          Subtotal(sales_df[lines[j]])])
                     /\ orders_df[k].status =
                            StatusMode([j \in 1..Len(lines) |->
                                           sales_df[lines[j]].status])
           /\ (customer_id_mapping = EmptyMap \/ product_id_mapping = EmptyMap)
                  => (orders_df = <<>> /\ order_items_df = <<>>)
    /\ pc = "raised" =>
           \E i \in SurvivingLines : sales_df[i].quantity = NaN

\* C18 witness: the first line was dropped for an unmapped customer and the
\* second line became an Order with its item
C18_Witness ==
    /\ pc = "aggregated"
    /\ Len(sales_df) = 2
    /\ sales_df[1].customer_id # NaS
    /\ sales_df[1].customer_id \notin DOMAIN customer_id_mapping
    /\ Len(orders_df) = 1
    /\ Len(order_items_df) = 1
    /\ order_items_df[1].src = 2

\* the value that is most frequent in statuses and, among the most frequent,
\* occurs first
FirstMostFrequent(statuses) ==
    LET count(s) == Cardinality({i \in 1..Len(statuses) : statuses[i] = s})
        top == {i \in 1..Len(statuses) :
                   \A j \in 1..Len(statuses) :
                       count(statuses[j]) <= count(statuses[i])}
    IN statuses[CHOOSE i \in top : \A j \in top : i <= j]

\* C19: the status of every Order emitted is the most frequent status of the
\* lines of its group and, when several are tied, the tied status that comes
\* first in the group's line order.
C19_StatusFirstEncountered ==
    pc = "aggregated" =>
        \A k \in 1..Len(orders_df) :
            LET lines == LinesOf(orders_df[k])
            IN orders_df[k].status =
                   FirstMostFrequent([j \in 1..Len(lines) |->
                                         sales_df[lines[j]].status])

\* ---- vocabulary of the claim about the rows load() submits
\* the ids of the rows of table t committed by the running call of load()
CommittedIds(t) ==
    {RowId(t, NewRows(committed, t)[i]) :
        i \in 1..Len(NewRows(committed, t))}

\* the persisted ids a load step returned in its mapping
MappedIds(m) == {m[k] : k \in DOMAIN m}

\* load_orders is about to execute the INSERT of OrderRow(idx)
SubmitsOrder ==
    pc = "orders" /\ connection = "open" /\ idx <= Len(orders_df)

\* load_order_items is about to execute the INSERT of ItemRow(idx)
SubmitsItem ==
    /\ pc = "items" /\ connection = "open" /\ idx <= Len(order_items_df)
    /\ ItemOrderId(order_items_df, order_id_mapping, idx) # NaN

\* C21: in every execution of load(), whichever steps fail, a row submitted
\* for insertion into orders references a customer id committed in customers
\* by this call, and a row submitted into order_items references an order id
\* committed in orders and a product id committed in products by this call;
\* each of these ids is a value of the mapping the load step returned.
C21_SubmittedRowsReferenceCommitted ==
    /\ SubmitsOrder =>
           /\ OrderRow(idx).customer_id \in CommittedIds("customers")
           /\ OrderRow(idx).customer_id \in MappedIds(customer_id_mapping)
    /\ SubmitsItem =>
           /\ ItemRow(idx).order_id \in CommittedIds("orders")
           /\ ItemRow(idx).order_id \in MappedIds(order_id_mapping)
           /\ ItemRow(idx).product_id \in CommittedIds("products")
           /\ ItemRow(idx).product_id \in MappedIds(product_id_mapping)

\* C21 witness: the second item is about to be submitted, after two orders
\* were committed and a first item was inserted
C21_Witness ==
    /\ SubmitsItem
    /\ idx = 2
    /\ Len(NewRows(committed, "orders")) = 2
    /\ Len(NewRows(db, "order_items")) = 1

====
